---- MODULE Spec2Model ----
(***************************************************************************)
(* Sudoku engine of ZSY-Toolkit (src/modules/games/sudoku/sudoku_module.py) *)
(* and the hint handler of its UI (sudoku_ui.py), as a state machine.       *)
(*                                                                          *)
(* The grid is the program's 9x9 grid, the generator is the program's       *)
(* diagonal seeding followed by backtracking, the carver removes the        *)
(* program's 40/50/60 cells.  What is bounded is the randomness (the        *)
(* shuffles random.shuffle may return are drawn from small families) and    *)
(* the calls the player makes (cells and digits from small sets, counters   *)
(* capped, the player's own calls explored in the end game).                *)
(***************************************************************************)
EXTENDS Integers, Sequences, FiniteSets, TLC

(* ------------------------------ bounds --------------------------------- *)

\* Shuffles of 1..9 that _fill_box may draw, per diagonal box.
NumBoxShuffles == 3
\* Shuffles of the 81 positions that _generate_puzzle may draw.
NumPosShuffles == 2
\* The end game: the player's own calls are explored while at most this many
\* cells are empty.
MaxOpen == 2
\* check_board is explored while mistakes_made is below this.
MaxMistakes == 2
\* Hints are explored up to this many more than the puzzle has empty cells.
ExtraHints == 0
\* On a grid filled with another solution, get_hint is explored while
\* hints_used is below this.
MaxAltHints == 1

(* ------------------------- program constants --------------------------- *)

\* SudokuDifficulty
EASY == 1
MEDIUM == 2
HARD == 3
Difficulties == {EASY, MEDIUM, HARD}

\* range(9): the rows and the columns
Idx == 0 .. 8
\* range(1, 10): the digits
Digits == 1 .. 9

\* None
None == <<>>

\* [[0 for _ in range(9)] for _ in range(9)]
EmptyBoard == [r \in Idx |-> [c \in Idx |-> 0]]
\* [[set() for _ in range(9)] for _ in range(9)]
EmptyNotes == [r \in Idx |-> [c \in Idx |-> {}]]

\* cells_to_remove of _generate_puzzle
cells_to_remove(d) ==
  CASE d = EASY -> 40
    [] d = MEDIUM -> 50
    [] d = HARD -> 60

(* ---------------------------- randomness ------------------------------- *)

\* The multipliers that are units modulo 9 (and modulo 81).
Units == <<1, 2, 4, 5, 7, 8>>

\* random.shuffle(nums) in _fill_box: the k-th shuffle of the family, a
\* permutation of 1..9 as the list nums[0..8].
ShuffledNums(k) ==
  [i \in 0 .. 8 |-> ((Units[(k % 6) + 1] * i + k) % 9) + 1]

\* random.shuffle(all_positions) in _generate_puzzle: the j-th shuffle of the
\* family, the list all_positions[0..80] of (r, c) pairs after the shuffle.
\* Before the shuffle all_positions[i] = (i // 9, i % 9).
ShuffledPositions(j) ==
  [i \in 0 .. 80 |->
     LET p == ((Units[((j + 1) % 6) + 1] * i + 11 * j + 76) % 81)
     IN  <<p \div 9, p % 9>>]

BoxShuffles == 0 .. (NumBoxShuffles - 1)
PosShuffles == 0 .. (NumPosShuffles - 1)
\* The three shuffles of one _generate_solution, one per diagonal box.
Seeds == BoxShuffles \X BoxShuffles \X BoxShuffles

(* --------------------------- the generator ----------------------------- *)

\* _is_valid without its test of the 3x3 box.
_is_valid_no_box(sol, row, col, num) ==
  /\ \A c \in Idx : sol[row][c] # num
  /\ \A r \in Idx : sol[r][col] # num

\* _is_valid without its test of the column.
_is_valid_no_column(sol, row, col, num) ==
  LET box_row == 3 * (row \div 3)
      box_col == 3 * (col \div 3)
  IN  /\ \A c \in Idx : sol[row][c] # num
      /\ \A r \in box_row .. (box_row + 2) :
           \A c \in box_col .. (box_col + 2) : sol[r][c] # num

\* _is_valid: num occurs neither in the row, nor in the column, nor in the box.
_is_valid(sol, row, col, num) ==
  LET box_row == 3 * (row \div 3)
      box_col == 3 * (col \div 3)
  IN  /\ \A c \in Idx : sol[row][c] # num
      /\ \A r \in Idx : sol[r][col] # num
      /\ \A r \in box_row .. (box_row + 2) :
           \A c \in box_col .. (box_col + 2) : sol[r][c] # num

\* _find_empty: the first empty cell in row-major order, or None.
_find_empty(sol) ==
  LET empties == {p \in 0 .. 80 : sol[p \div 9][p % 9] = 0}
  IN  IF empties = {}
        THEN None
        ELSE LET p == CHOOSE q \in empties : \A o \in empties : q <= o
             IN  <<p \div 9, p % 9>>

\* _solve_step of a _solve_board that returns what its recursive call
\* returns: when a call has tried every digit, the whole search gives up and
\* the cells filled so far stay filled.
_solve_step_no_backtrack(m) ==
  IF m.mode = "call"
    THEN LET empty_cell == _find_empty(m.sol)
         IN  IF empty_cell = None
               THEN [m EXCEPT !.mode = "True"]
               ELSE [m EXCEPT !.stack = Append(@, <<empty_cell[1], empty_cell[2], 1>>),
                              !.mode = "loop"]
    ELSE IF m.mode = "loop"
      THEN LET depth == Len(m.stack)
               row == m.stack[depth][1]
               col == m.stack[depth][2]
               num == m.stack[depth][3]
           IN  IF num > 9
                 THEN [m EXCEPT !.stack = <<>>, !.mode = "False"]
                 ELSE IF _is_valid(m.sol, row, col, num)
                        THEN [m EXCEPT !.sol[row][col] = num, !.mode = "call"]
                        ELSE [m EXCEPT !.stack[depth][3] = num + 1]
      ELSE m

\* _solve_step of a _solve_board whose loop is "for num in range(9, 0, -1)".
_solve_step_descending(m) ==
  IF m.mode = "call"
    THEN LET empty_cell == _find_empty(m.sol)
         IN  IF empty_cell = None
               THEN [m EXCEPT !.mode = "True"]
               ELSE [m EXCEPT !.stack = Append(@, <<empty_cell[1], empty_cell[2], 9>>),
                              !.mode = "loop"]
    ELSE IF m.mode = "loop"
      THEN LET depth == Len(m.stack)
               row == m.stack[depth][1]
               col == m.stack[depth][2]
               num == m.stack[depth][3]
           IN  IF num < 1
                 THEN IF depth = 1
                        THEN [m EXCEPT !.stack = <<>>, !.mode = "False"]
                        ELSE LET back == m.stack[depth - 1]
                             IN  [m EXCEPT !.sol[back[1]][back[2]] = 0,
                                           !.stack = Append(SubSeq(@, 1, depth - 2),
                                                            <<back[1], back[2], back[3] - 1>>)]
                 ELSE IF _is_valid(m.sol, row, col, num)
                        THEN [m EXCEPT !.sol[row][col] = num, !.mode = "call"]
                        ELSE [m EXCEPT !.stack[depth][3] = num - 1]
      ELSE m

\* One step of _solve_board and of the calls it makes of itself, the call
\* stack written out: m.sol is self.solution, m.stack holds one frame
\* <<row, col, num>> for every call that is inside its loop "for num in
\* range(1, 10)", and m.mode says where the innermost call is:
\*   "call"  at its first line (_find_empty);
\*   "loop"  at the head of its loop, about to test the frame's num;
\*   "True" / "False"  the outermost call has returned that value.
\* A call that finds no empty cell returns True, and then so does every call
\* above it.  A call whose loop is exhausted returns False to its caller, which
\* sets its own cell back to 0 and goes on with its next num.
_solve_step(m) ==
  IF m.mode = "call"
    THEN LET empty_cell == _find_empty(m.sol)
         IN  IF empty_cell = None
               THEN [m EXCEPT !.mode = "True"]
               ELSE [m EXCEPT !.stack = Append(@, <<empty_cell[1], empty_cell[2], 1>>),
                              !.mode = "loop"]
    ELSE IF m.mode = "loop"
      THEN LET depth == Len(m.stack)
               row == m.stack[depth][1]
               col == m.stack[depth][2]
               num == m.stack[depth][3]
           IN  IF num > 9
                 THEN IF depth = 1
                        THEN [m EXCEPT !.stack = <<>>, !.mode = "False"]
                        ELSE LET back == m.stack[depth - 1]
                             IN  [m EXCEPT !.sol[back[1]][back[2]] = 0,
                                           !.stack = Append(SubSeq(@, 1, depth - 2),
                                                            <<back[1], back[2], back[3] + 1>>)]
                 ELSE IF _is_valid(m.sol, row, col, num)
                        THEN [m EXCEPT !.sol[row][col] = num, !.mode = "call"]
                        ELSE [m EXCEPT !.stack[depth][3] = num + 1]
      ELSE m

RECURSIVE _solve_run(_, _)
\* 2^k steps of _solve_step from m, or as many as it takes to return.
_solve_run(m, k) ==
  IF m.mode \in {"True", "False"}
    THEN m
    ELSE IF k = 0
           THEN _solve_step(m)
           ELSE _solve_run(_solve_run(m, k - 1), k - 1)

RECURSIVE _solve_until_return(_, _)
\* The steps of _solve_step from m until the outermost call returns.
_solve_until_return(m, k) ==
  IF m.mode \in {"True", "False"}
    THEN m
    ELSE _solve_until_return(_solve_run(m, k), k + 1)

\* _solve_board: the value returned (ok) and self.solution on return (sol).
_solve_board(sol) ==
  LET m == _solve_until_return([sol |-> sol, stack |-> <<>>, mode |-> "call"], 0)
  IN  [ok |-> (m.mode = "True"), sol |-> m.sol]

\* _fill_box with the shuffled list nums.
_fill_box(sol, row, col, nums) ==
  [r \in Idx |-> [c \in Idx |->
     IF r \in row .. (row + 2) /\ c \in col .. (col + 2)
       THEN nums[3 * (r - row) + (c - col)]
       ELSE sol[r][c]]]

\* _generate_solution: self.solution on return.  The value _solve_board
\* returns is not looked at.
_generate_solution(seed) ==
  LET s0 == _fill_box(EmptyBoard, 0, 0, ShuffledNums(seed[1]))
      s3 == _fill_box(s0, 3, 3, ShuffledNums(seed[2]))
      s6 == _fill_box(s3, 6, 6, ShuffledNums(seed[3]))
  IN  _solve_board(s6).sol

\* self.solution in _generate_solution after its three calls of _fill_box,
\* before its call of _solve_board.
SeededBoxes(seed) ==
  _fill_box(_fill_box(_fill_box(EmptyBoard, 0, 0, ShuffledNums(seed[1])),
                      3, 3, ShuffledNums(seed[2])),
            6, 6, ShuffledNums(seed[3]))

\* The call of _solve_board in _generate_solution for every seed of the
\* family, computed once: the grid it starts from (seeded) and what it
\* returns and leaves (result).
Completions ==
  {[seed |-> seed, seeded |-> SeededBoxes(seed),
    result |-> _solve_board(SeededBoxes(seed))] : seed \in Seeds}

\* _generate_solution for every seed of the family, computed once.
GeneratedSolutions ==
  {[seed |-> seed, solution |-> _generate_solution(seed)] : seed \in Seeds}

GeneratedSolution(seed) ==
  (CHOOSE g \in GeneratedSolutions : g.seed = seed).solution

(* ----------------------------- the engine ------------------------------ *)

\* A SudokuModule object: self.board, self.original_board, ... as the fields
\* of a record.  Every method below is the object after the call (self) and
\* the value returned (ret).

\* __init__
NewModule ==
  [board |-> EmptyBoard, original_board |-> EmptyBoard, solution |-> EmptyBoard,
   difficulty |-> EASY, game_started |-> FALSE, game_completed |-> FALSE,
   hints_used |-> 0, mistakes_made |-> 0, notes |-> EmptyNotes]

\* The cells 0..80 in row-major order: cell p is (p // 9, p % 9).
Cells == 0 .. 80
RowOf(p) == p \div 9
ColOf(p) == p % 9

\* The smallest element of a non-empty set of integers.
Min(S) == CHOOSE x \in S : \A y \in S : x <= y

\* _carve that stops one position early.
_carve_one_less(sol, d, shuffle) ==
  LET all_positions == ShuffledPositions(shuffle)
      removed == {all_positions[i] : i \in 0 .. (cells_to_remove(d) - 2)}
  IN  [r \in Idx |-> [c \in Idx |->
         IF <<r, c>> \in removed THEN 0 ELSE sol[r][c]]]

\* The board of _generate_puzzle before it is saved as the original board: a
\* copy of the solution with the first cells_to_remove[difficulty] positions
\* of the shuffled all_positions set to 0.
_carve(sol, d, shuffle) ==
  LET all_positions == ShuffledPositions(shuffle)
      removed == {all_positions[i] : i \in 0 .. (cells_to_remove(d) - 1)}
  IN  [r \in Idx |-> [c \in Idx |->
         IF <<r, c>> \in removed THEN 0 ELSE sol[r][c]]]

\* _carve of every generated solution, computed once.
CarvedBoards ==
  {[seed |-> g.seed, difficulty |-> d, shuffle |-> j,
    board |-> _carve(g.solution, d, j)] :
     g \in GeneratedSolutions, d \in Difficulties, j \in PosShuffles}

CarvedBoard(seed, d, shuffle) ==
  (CHOOSE b \in CarvedBoards :
     b.seed = seed /\ b.difficulty = d /\ b.shuffle = shuffle).board

\* _generate_puzzle, with the seed of _generate_solution and the shuffle of
\* all_positions that random.shuffle returned.
_generate_puzzle(self, d, seed, shuffle) ==
  [self EXCEPT !.solution = GeneratedSolution(seed),
               !.board = CarvedBoard(seed, d, shuffle),
               !.original_board = CarvedBoard(seed, d, shuffle)]

\* new_game that leaves the two counters as they are.
new_game_keeps_counters(self, d, seed, shuffle) ==
  [self |-> _generate_puzzle(
              [self EXCEPT !.difficulty = d, !.game_started = TRUE,
                           !.game_completed = FALSE, !.notes = EmptyNotes],
              d, seed, shuffle),
   ret |-> TRUE]

\* new_game
new_game(self, d, seed, shuffle) ==
  [self |-> _generate_puzzle(
              [self EXCEPT !.difficulty = d, !.game_started = TRUE,
                           !.game_completed = FALSE, !.hints_used = 0,
                           !.mistakes_made = 0, !.notes = EmptyNotes],
              d, seed, shuffle),
   ret |-> TRUE]

\* _check_completion that looks at the rows 0..7 only.
_check_completion_short_range(self) ==
  /\ \A r \in 0 .. 7 : \A c \in Idx : self.board[r][c] # 0
  /\ \A r \in 0 .. 7 : \A c \in Idx : self.board[r][c] = self.solution[r][c]

\* _check_completion that asks for a full grid that obeys the rules, each row,
\* column and box holding each digit once, whatever the stored solution.
_check_completion_by_rules(self) ==
  /\ \A r \in Idx : {self.board[r][c] : c \in Idx} = Digits
  /\ \A c \in Idx : {self.board[r][c] : r \in Idx} = Digits
  /\ \A br \in {0, 3, 6} : \A bc \in {0, 3, 6} :
       {self.board[r][c] : r \in br .. (br + 2), c \in bc .. (bc + 2)} = Digits

\* _check_completion
_check_completion(self) ==
  /\ \A r \in Idx : \A c \in Idx : self.board[r][c] # 0
  /\ \A r \in Idx : \A c \in Idx : self.board[r][c] = self.solution[r][c]

\* place_number that accepts 0 and the solution's digit only.
place_number_validates(self, row, col, num) ==
  IF ~self.game_started THEN [self |-> self, ret |-> FALSE]
  ELSE IF self.game_completed THEN [self |-> self, ret |-> FALSE]
  ELSE IF ~(0 <= row /\ row < 9 /\ 0 <= col /\ col < 9) THEN [self |-> self, ret |-> FALSE]
  ELSE IF self.original_board[row][col] # 0 THEN [self |-> self, ret |-> FALSE]
  ELSE IF ~(0 <= num /\ num <= 9) THEN [self |-> self, ret |-> FALSE]
  ELSE IF num # 0 /\ num # self.solution[row][col] THEN [self |-> self, ret |-> FALSE]
  ELSE LET placed == [self EXCEPT !.board[row][col] = num]
           cleared == IF num # 0 THEN [placed EXCEPT !.notes[row][col] = {}] ELSE placed
       IN  [self |-> IF _check_completion(cleared)
                       THEN [cleared EXCEPT !.game_completed = TRUE]
                       ELSE cleared,
            ret |-> TRUE]

\* place_number whose test of num is 1 <= num <= 9.
place_number_no_clear(self, row, col, num) ==
  IF ~self.game_started THEN [self |-> self, ret |-> FALSE]
  ELSE IF self.game_completed THEN [self |-> self, ret |-> FALSE]
  ELSE IF ~(0 <= row /\ row < 9 /\ 0 <= col /\ col < 9) THEN [self |-> self, ret |-> FALSE]
  ELSE IF self.original_board[row][col] # 0 THEN [self |-> self, ret |-> FALSE]
  ELSE IF ~(1 <= num /\ num <= 9) THEN [self |-> self, ret |-> FALSE]
  ELSE LET placed == [self EXCEPT !.board[row][col] = num]
           cleared == IF num # 0 THEN [placed EXCEPT !.notes[row][col] = {}] ELSE placed
       IN  [self |-> IF _check_completion(cleared)
                       THEN [cleared EXCEPT !.game_completed = TRUE]
                       ELSE cleared,
            ret |-> TRUE]

\* place_number without its call of _check_completion.
place_number_never_completes(self, row, col, num) ==
  IF ~self.game_started THEN [self |-> self, ret |-> FALSE]
  ELSE IF self.game_completed THEN [self |-> self, ret |-> FALSE]
  ELSE IF ~(0 <= row /\ row < 9 /\ 0 <= col /\ col < 9) THEN [self |-> self, ret |-> FALSE]
  ELSE IF self.original_board[row][col] # 0 THEN [self |-> self, ret |-> FALSE]
  ELSE IF ~(0 <= num /\ num <= 9) THEN [self |-> self, ret |-> FALSE]
  ELSE LET placed == [self EXCEPT !.board[row][col] = num]
       IN  [self |-> IF num # 0 THEN [placed EXCEPT !.notes[row][col] = {}] ELSE placed,
            ret |-> TRUE]

\* place_number without its test of the range of num.
place_number_unchecked_digit(self, row, col, num) ==
  IF ~self.game_started THEN [self |-> self, ret |-> FALSE]
  ELSE IF self.game_completed THEN [self |-> self, ret |-> FALSE]
  ELSE IF ~(0 <= row /\ row < 9 /\ 0 <= col /\ col < 9) THEN [self |-> self, ret |-> FALSE]
  ELSE IF self.original_board[row][col] # 0 THEN [self |-> self, ret |-> FALSE]
  ELSE LET placed == [self EXCEPT !.board[row][col] = num]
           cleared == IF num # 0 THEN [placed EXCEPT !.notes[row][col] = {}] ELSE placed
       IN  [self |-> IF _check_completion(cleared)
                       THEN [cleared EXCEPT !.game_completed = TRUE]
                       ELSE cleared,
            ret |-> TRUE]

\* place_number without its test of the original board.
place_number_over_given(self, row, col, num) ==
  IF ~self.game_started THEN [self |-> self, ret |-> FALSE]
  ELSE IF self.game_completed THEN [self |-> self, ret |-> FALSE]
  ELSE IF ~(0 <= row /\ row < 9 /\ 0 <= col /\ col < 9) THEN [self |-> self, ret |-> FALSE]
  ELSE IF ~(0 <= num /\ num <= 9) THEN [self |-> self, ret |-> FALSE]
  ELSE LET placed == [self EXCEPT !.board[row][col] = num]
           cleared == IF num # 0 THEN [placed EXCEPT !.notes[row][col] = {}] ELSE placed
       IN  [self |-> IF _check_completion(cleared)
                       THEN [cleared EXCEPT !.game_completed = TRUE]
                       ELSE cleared,
            ret |-> TRUE]

\* place_number that leaves the notes of the cell as they are.
place_number_keeps_notes(self, row, col, num) ==
  IF ~self.game_started THEN [self |-> self, ret |-> FALSE]
  ELSE IF self.game_completed THEN [self |-> self, ret |-> FALSE]
  ELSE IF ~(0 <= row /\ row < 9 /\ 0 <= col /\ col < 9) THEN [self |-> self, ret |-> FALSE]
  ELSE IF self.original_board[row][col] # 0 THEN [self |-> self, ret |-> FALSE]
  ELSE IF ~(0 <= num /\ num <= 9) THEN [self |-> self, ret |-> FALSE]
  ELSE LET placed == [self EXCEPT !.board[row][col] = num]
       IN  [self |-> IF _check_completion(placed)
                       THEN [placed EXCEPT !.game_completed = TRUE]
                       ELSE placed,
            ret |-> TRUE]

\* place_number without its test of game_completed.
place_number_after_completion(self, row, col, num) ==
  IF ~self.game_started THEN [self |-> self, ret |-> FALSE]
  ELSE IF ~(0 <= row /\ row < 9 /\ 0 <= col /\ col < 9) THEN [self |-> self, ret |-> FALSE]
  ELSE IF self.original_board[row][col] # 0 THEN [self |-> self, ret |-> FALSE]
  ELSE IF ~(0 <= num /\ num <= 9) THEN [self |-> self, ret |-> FALSE]
  ELSE LET placed == [self EXCEPT !.board[row][col] = num]
           cleared == IF num # 0 THEN [placed EXCEPT !.notes[row][col] = {}] ELSE placed
       IN  [self |-> IF _check_completion(cleared)
                       THEN [cleared EXCEPT !.game_completed = TRUE]
                       ELSE cleared,
            ret |-> TRUE]

\* place_number
place_number(self, row, col, num) ==
  IF ~self.game_started THEN [self |-> self, ret |-> FALSE]
  ELSE IF self.game_completed THEN [self |-> self, ret |-> FALSE]
  ELSE IF ~(0 <= row /\ row < 9 /\ 0 <= col /\ col < 9) THEN [self |-> self, ret |-> FALSE]
  ELSE IF self.original_board[row][col] # 0 THEN [self |-> self, ret |-> FALSE]
  ELSE IF ~(0 <= num /\ num <= 9) THEN [self |-> self, ret |-> FALSE]
  ELSE LET placed == [self EXCEPT !.board[row][col] = num]
           cleared == IF num # 0 THEN [placed EXCEPT !.notes[row][col] = {}] ELSE placed
       IN  [self |-> IF _check_completion(cleared)
                       THEN [cleared EXCEPT !.game_completed = TRUE]
                       ELSE cleared,
            ret |-> TRUE]

\* toggle_note that assigns {num} where it should add num.
toggle_note_replaces(self, row, col, num) ==
  IF ~self.game_started THEN [self |-> self, ret |-> FALSE]
  ELSE IF self.game_completed THEN [self |-> self, ret |-> FALSE]
  ELSE IF ~(0 <= row /\ row < 9 /\ 0 <= col /\ col < 9) THEN [self |-> self, ret |-> FALSE]
  ELSE IF self.original_board[row][col] # 0 THEN [self |-> self, ret |-> FALSE]
  ELSE IF self.board[row][col] # 0 THEN [self |-> self, ret |-> FALSE]
  ELSE IF ~(1 <= num /\ num <= 9) THEN [self |-> self, ret |-> FALSE]
  ELSE [self |-> IF num \in self.notes[row][col]
                   THEN [self EXCEPT !.notes[row][col] = @ \ {num}]
                   ELSE [self EXCEPT !.notes[row][col] = {num}],
        ret |-> TRUE]

\* toggle_note that adds the note and never removes it.
toggle_note_only_adds(self, row, col, num) ==
  IF ~self.game_started THEN [self |-> self, ret |-> FALSE]
  ELSE IF self.game_completed THEN [self |-> self, ret |-> FALSE]
  ELSE IF ~(0 <= row /\ row < 9 /\ 0 <= col /\ col < 9) THEN [self |-> self, ret |-> FALSE]
  ELSE IF self.original_board[row][col] # 0 THEN [self |-> self, ret |-> FALSE]
  ELSE IF self.board[row][col] # 0 THEN [self |-> self, ret |-> FALSE]
  ELSE IF ~(1 <= num /\ num <= 9) THEN [self |-> self, ret |-> FALSE]
  ELSE [self |-> [self EXCEPT !.notes[row][col] = @ \cup {num}],
        ret |-> TRUE]

\* toggle_note
toggle_note(self, row, col, num) ==
  IF ~self.game_started THEN [self |-> self, ret |-> FALSE]
  ELSE IF self.game_completed THEN [self |-> self, ret |-> FALSE]
  ELSE IF ~(0 <= row /\ row < 9 /\ 0 <= col /\ col < 9) THEN [self |-> self, ret |-> FALSE]
  ELSE IF self.original_board[row][col] # 0 THEN [self |-> self, ret |-> FALSE]
  ELSE IF self.board[row][col] # 0 THEN [self |-> self, ret |-> FALSE]
  ELSE IF ~(1 <= num /\ num <= 9) THEN [self |-> self, ret |-> FALSE]
  ELSE [self |-> IF num \in self.notes[row][col]
                   THEN [self EXCEPT !.notes[row][col] = @ \ {num}]
                   ELSE [self EXCEPT !.notes[row][col] = @ \cup {num}],
        ret |-> TRUE]

\* get_hint that looks for empty cells only.
get_hint_only_empty(self) ==
  IF ~self.game_started THEN [self |-> self, ret |-> None]
  ELSE IF self.game_completed THEN [self |-> self, ret |-> None]
  ELSE LET found == {p \in Cells : self.board[RowOf(p)][ColOf(p)] = 0}
       IN  IF found = {}
             THEN [self |-> self, ret |-> None]
             ELSE LET p == Min(found)
                  IN  [self |-> [self EXCEPT !.hints_used = @ + 1],
                       ret |-> <<RowOf(p), ColOf(p), self.solution[RowOf(p)][ColOf(p)]>>]

\* get_hint that does not count the hint.
get_hint_uncounted(self) ==
  IF ~self.game_started THEN [self |-> self, ret |-> None]
  ELSE IF self.game_completed THEN [self |-> self, ret |-> None]
  ELSE LET found == {p \in Cells :
                       \/ self.board[RowOf(p)][ColOf(p)] = 0
                       \/ self.board[RowOf(p)][ColOf(p)] # self.solution[RowOf(p)][ColOf(p)]}
       IN  IF found = {}
             THEN [self |-> self, ret |-> None]
             ELSE LET p == Min(found)
                  IN  [self |-> self,
                       ret |-> <<RowOf(p), ColOf(p), self.solution[RowOf(p)][ColOf(p)]>>]

\* get_hint
get_hint(self) ==
  IF ~self.game_started THEN [self |-> self, ret |-> None]
  ELSE IF self.game_completed THEN [self |-> self, ret |-> None]
  ELSE LET found == {p \in Cells :
                       \/ self.board[RowOf(p)][ColOf(p)] = 0
                       \/ self.board[RowOf(p)][ColOf(p)] # self.solution[RowOf(p)][ColOf(p)]}
       IN  IF found = {}
             THEN [self |-> self, ret |-> None]
             ELSE LET p == Min(found)
                  IN  [self |-> [self EXCEPT !.hints_used = @ + 1],
                       ret |-> <<RowOf(p), ColOf(p), self.solution[RowOf(p)][ColOf(p)]>>]

\* The list of the cells of a set, in row-major order, as (r, c) pairs.
CellList(S) ==
  [i \in 1 .. Cardinality(S) |->
     LET p == CHOOSE q \in S : Cardinality({o \in S : o < q}) = i - 1
     IN  <<RowOf(p), ColOf(p)>>]

\* check_board that does not skip the empty cells.
check_board_reports_empty(self) ==
  LET errors == {p \in Cells :
                   self.board[RowOf(p)][ColOf(p)] # self.solution[RowOf(p)][ColOf(p)]}
  IN  [self |-> [self EXCEPT !.mistakes_made = @ + Cardinality(errors)],
       ret |-> CellList(errors)]

\* check_board that counts one mistake per call that finds errors.
check_board_counts_once(self) ==
  LET errors == {p \in Cells :
                   /\ self.board[RowOf(p)][ColOf(p)] # 0
                   /\ self.board[RowOf(p)][ColOf(p)] # self.solution[RowOf(p)][ColOf(p)]}
  IN  [self |-> [self EXCEPT !.mistakes_made = @ + (IF errors = {} THEN 0 ELSE 1)],
       ret |-> CellList(errors)]

\* check_board
check_board(self) ==
  LET errors == {p \in Cells :
                   /\ self.board[RowOf(p)][ColOf(p)] # 0
                   /\ self.board[RowOf(p)][ColOf(p)] # self.solution[RowOf(p)][ColOf(p)]}
  IN  [self |-> [self EXCEPT !.mistakes_made = @ + Cardinality(errors)],
       ret |-> CellList(errors)]

\* _get_possible_numbers whose box starts at (3 * (row % 3), 3 * (col % 3)).
_get_possible_numbers_wrong_box(self, row, col) ==
  LET box_row == 3 * (row % 3)
      box_col == 3 * (col % 3)
  IN  ((Digits \ {self.board[row][c] : c \in Idx})
         \ {self.board[r][col] : r \in Idx})
        \ {self.board[r][c] : r \in box_row .. (box_row + 2),
                              c \in box_col .. (box_col + 2)}

\* _get_possible_numbers
_get_possible_numbers(self, row, col) ==
  LET box_row == 3 * (row \div 3)
      box_col == 3 * (col \div 3)
  IN  ((Digits \ {self.board[row][c] : c \in Idx})
         \ {self.board[r][col] : r \in Idx})
        \ {self.board[r][c] : r \in box_row .. (box_row + 2),
                              c \in box_col .. (box_col + 2)}

\* auto_notes that does not empty the notes first and adds the candidates to
\* the notes of the cell.
auto_notes_keeps_old(self) ==
  IF ~self.game_started THEN [self |-> self, ret |-> FALSE]
  ELSE IF self.game_completed THEN [self |-> self, ret |-> FALSE]
  ELSE [self |-> [self EXCEPT !.notes =
                    [r \in Idx |-> [c \in Idx |->
                       IF self.board[r][c] # 0
                         THEN self.notes[r][c]
                         ELSE self.notes[r][c] \cup _get_possible_numbers(self, r, c)]]],
        ret |-> TRUE]

\* auto_notes
auto_notes(self) ==
  IF ~self.game_started THEN [self |-> self, ret |-> FALSE]
  ELSE IF self.game_completed THEN [self |-> self, ret |-> FALSE]
  ELSE [self |-> [self EXCEPT !.notes =
                    [r \in Idx |-> [c \in Idx |->
                       IF self.board[r][c] # 0
                         THEN {}
                         ELSE _get_possible_numbers(self, r, c)]]],
        ret |-> TRUE]

\* reset_game with its copy the wrong way round: the play grid is saved as the
\* original grid.
reset_game_saves_board(self) ==
  IF ~self.game_started THEN [self |-> self, ret |-> FALSE]
  ELSE [self |-> [self EXCEPT !.original_board = self.board,
                              !.game_completed = FALSE,
                              !.hints_used = 0,
                              !.mistakes_made = 0,
                              !.notes = EmptyNotes],
        ret |-> TRUE]

\* reset_game that leaves the notes as they are.
reset_game_keeps_notes(self) ==
  IF ~self.game_started THEN [self |-> self, ret |-> FALSE]
  ELSE [self |-> [self EXCEPT !.board = self.original_board,
                              !.game_completed = FALSE,
                              !.hints_used = 0,
                              !.mistakes_made = 0],
        ret |-> TRUE]

\* reset_game that leaves game_completed as it is.
reset_game_keeps_completed(self) ==
  IF ~self.game_started THEN [self |-> self, ret |-> FALSE]
  ELSE [self |-> [self EXCEPT !.board = self.original_board,
                              !.hints_used = 0,
                              !.mistakes_made = 0,
                              !.notes = EmptyNotes],
        ret |-> TRUE]

\* reset_game that leaves the play grid as it is.
reset_game_keeps_board(self) ==
  IF ~self.game_started THEN [self |-> self, ret |-> FALSE]
  ELSE [self |-> [self EXCEPT !.game_completed = FALSE,
                              !.hints_used = 0,
                              !.mistakes_made = 0,
                              !.notes = EmptyNotes],
        ret |-> TRUE]

\* reset_game that refuses a completed session.
reset_game_refuses_completed(self) ==
  IF ~self.game_started THEN [self |-> self, ret |-> FALSE]
  ELSE IF self.game_completed THEN [self |-> self, ret |-> FALSE]
  ELSE [self |-> [self EXCEPT !.board = self.original_board,
                              !.game_completed = FALSE,
                              !.hints_used = 0,
                              !.mistakes_made = 0,
                              !.notes = EmptyNotes],
        ret |-> TRUE]

\* reset_game
reset_game(self) ==
  IF ~self.game_started THEN [self |-> self, ret |-> FALSE]
  ELSE [self |-> [self EXCEPT !.board = self.original_board,
                              !.game_completed = FALSE,
                              !.hints_used = 0,
                              !.mistakes_made = 0,
                              !.notes = EmptyNotes],
        ret |-> TRUE]

\* difficulty.name
DifficultyName(d) ==
  CASE d = EASY -> "EASY"
    [] d = MEDIUM -> "MEDIUM"
    [] d = HARD -> "HARD"

\* get_game_stats whose percentage is the share of all 81 cells that are
\* filled.
get_game_stats_counts_givens(self) ==
  LET total_cells == 81
      filled_cells == Cardinality({p \in Cells : self.board[RowOf(p)][ColOf(p)] # 0})
  IN  [self |-> self,
       ret |-> [difficulty |-> DifficultyName(self.difficulty),
                completion_percentage |-> <<filled_cells * 100, total_cells>>,
                hints_used |-> self.hints_used,
                mistakes_made |-> self.mistakes_made,
                game_completed |-> self.game_completed]]

\* get_game_stats: the dictionary returned, as a record.  The float
\* completion_percentage = player_filled / to_fill * 100 is kept as the
\* exact fraction <<player_filled * 100, to_fill>>, of which the program's
\* double is the rounding (0 and 100 are exact, the order is kept), and is
\* <<0, 1>> when there is no cell to fill.
get_game_stats(self) ==
  LET total_cells == 81
      filled_cells == Cardinality({p \in Cells : self.board[RowOf(p)][ColOf(p)] # 0})
      original_cells == Cardinality({p \in Cells : self.original_board[RowOf(p)][ColOf(p)] # 0})
      player_filled == filled_cells - original_cells
      to_fill == total_cells - original_cells
  IN  [self |-> self,
       ret |-> [difficulty |-> DifficultyName(self.difficulty),
                completion_percentage |->
                  IF to_fill > 0 THEN <<player_filled * 100, to_fill>> ELSE <<0, 1>>,
                hints_used |-> self.hints_used,
                mistakes_made |-> self.mistakes_made,
                game_completed |-> self.game_completed]]

\* _get_hint that shows the hint and does not place it.
ui_get_hint_only_shows(self) == get_hint(self)

\* SudokuUI._get_hint: get_hint, and place_number of the hint when there is one.
\* The handler returns nothing; ret is the hint it got.
ui_get_hint(self) ==
  LET handle(hint) ==
        IF hint.ret # None
          THEN [self |-> place_number(hint.self, hint.ret[1], hint.ret[2], hint.ret[3]).self,
                ret |-> hint.ret]
          ELSE [self |-> hint.self, ret |-> None]
  IN  CHOOSE res \in {handle(hint) : hint \in {get_hint(self)}} : TRUE

(* --------------------------- the state machine ------------------------- *)

\* The fields of the one SudokuModule object of the UI, the last call made on
\* it (its name and arguments) and the value that call returned.
VARIABLES board, original_board, solution, difficulty, game_started,
          game_completed, hints_used, mistakes_made, notes, call, returned

\* The value the last call returned. The variable keeps it next to the name
\* of the method that returned it: the methods return values of different
\* kinds (a bool, a tuple or None, a list, a dict).
ret == returned[2]

vars == <<board, original_board, solution, difficulty, game_started,
          game_completed, hints_used, mistakes_made, notes, call, returned>>

Init ==
  /\ board = EmptyBoard
  /\ original_board = EmptyBoard
  /\ solution = EmptyBoard
  /\ difficulty = EASY
  /\ game_started = FALSE
  /\ game_completed = FALSE
  /\ hints_used = 0
  /\ mistakes_made = 0
  /\ notes = EmptyNotes
  /\ call = <<"__init__">>
  /\ returned = <<"__init__", None>>

\* The object as a record.
Self ==
  [board |-> board, original_board |-> original_board, solution |-> solution,
   difficulty |-> difficulty, game_started |-> game_started,
   game_completed |-> game_completed, hints_used |-> hints_used,
   mistakes_made |-> mistakes_made, notes |-> notes]

\* The call c was made and returned res.ret, leaving the object as res.self.
Return(c, res) ==
  \E r \in {res} :
    /\ board' = r.self.board
    /\ original_board' = r.self.original_board
    /\ solution' = r.self.solution
    /\ difficulty' = r.self.difficulty
    /\ game_started' = r.self.game_started
    /\ game_completed' = r.self.game_completed
    /\ hints_used' = r.self.hints_used
    /\ mistakes_made' = r.self.mistakes_made
    /\ notes' = r.self.notes
    /\ call' = c
    /\ returned' = <<c[1], r.ret>>

(* The calls that are explored. *)

\* The empty cells of a board.
OpenCells(b) == {p \in Cells : b[RowOf(p)][ColOf(p)] = 0}

RECURSIVE LastOpenFrom(_, _)
\* The last n empty cells of the puzzle among the cells 0..p, in row-major
\* order.
LastOpenFrom(p, n) ==
  IF p < 0 \/ n = 0
    THEN {}
    ELSE IF original_board[RowOf(p)][ColOf(p)] = 0
           THEN {p} \cup LastOpenFrom(p - 1, n - 1)
           ELSE LastOpenFrom(p - 1, n)

\* The last n empty cells of the puzzle.
LastOpenCells(n) == LastOpenFrom(80, n)

RECURSIVE FirstGivenFrom(_)
\* The first given of the puzzle among the cells p..80.
FirstGivenFrom(p) ==
  IF p > 80
    THEN {}
    ELSE IF original_board[RowOf(p)][ColOf(p)] # 0
           THEN {p}
           ELSE FirstGivenFrom(p + 1)

\* The first given of the puzzle.
FirstGiven == FirstGivenFrom(0)

\* The cells the player acts on: the last MaxOpen empty cells of the puzzle,
\* which the hint handler reaches last, and the first given.
FocusCells == LastOpenCells(MaxOpen) \cup FirstGiven

\* A digit that is not the solution of cell p.
WrongDigit(p) == (solution[RowOf(p)][ColOf(p)] % 9) + 1

\* The arguments of the place_number calls: the focus cells with 0, the right
\* digit and a wrong digit, the last empty cell with two numbers that are no
\* digits, and two cells off the board.
PlaceArgs ==
  LET focus == FocusCells
  IN  {<<RowOf(p), ColOf(p), 0>> : p \in focus}
      \cup {<<RowOf(p), ColOf(p), solution[RowOf(p)][ColOf(p)]>> : p \in focus}
      \cup {<<RowOf(p), ColOf(p), WrongDigit(p)>> : p \in focus}
      \cup {<<RowOf(p), ColOf(p), n>> : p \in LastOpenCells(1), n \in {-1, 10}}
      \cup {<<-1, 0, 1>>, <<0, 9, 1>>}

\* The arguments of the toggle_note calls.
ToggleArgs ==
  {<<RowOf(p), ColOf(p), 3>> : p \in FocusCells}
  \cup {<<RowOf(p), ColOf(p), n>> : p \in LastOpenCells(1), n \in {0, 10}}
  \cup {<<9, 0, 3>>, <<0, -1, 3>>}

\* The draws of random.shuffle in the games that are played: draw k is the
\* k-th shuffle for each diagonal box and the k-th shuffle of the positions.
PlayDraws == {0}

\* The player's own calls are explored before the first game and in the end
\* game.
PlayerTurn == ~game_started \/ Cardinality(OpenCells(board)) <= MaxOpen

\* Hints are explored up to ExtraHints more than the puzzle has empty cells.
HintsLeft == hints_used < cells_to_remove(difficulty) + ExtraHints

NewGame(d, seed, shuffle) ==
  Return(<<"new_game", d>>, new_game(Self, d, seed, shuffle))

PlaceNumber(row, col, num) ==
  Return(<<"place_number", row, col, num>>, place_number(Self, row, col, num))

ToggleNote(row, col, num) ==
  Return(<<"toggle_note", row, col, num>>, toggle_note(Self, row, col, num))

GetHint == Return(<<"get_hint">>, get_hint(Self))

CheckBoard == Return(<<"check_board">>, check_board(Self))

AutoNotes == Return(<<"auto_notes">>, auto_notes(Self))

ResetGame == Return(<<"reset_game">>, reset_game(Self))

GetGameStats == Return(<<"get_game_stats">>, get_game_stats(Self))

UIGetHint == Return(<<"_get_hint">>, ui_get_hint(Self))

\* check_board is explored while mistakes_made is below MaxMistakes.
ChecksLeft == mistakes_made < MaxMistakes

\* Any sequence of calls: new_game, reset_game and the hint handler at any
\* time, the player's own calls in the end game.
Next ==
  \/ \E d \in Difficulties, k \in PlayDraws : NewGame(d, <<k, k, k>>, k)
  \/ HintsLeft /\ UIGetHint
  \/ ResetGame
  \/ PlayerTurn /\ \E a \in PlaceArgs : PlaceNumber(a[1], a[2], a[3])
  \/ PlayerTurn /\ \E a \in ToggleArgs : ToggleNote(a[1], a[2], a[3])
  \/ PlayerTurn /\ HintsLeft /\ GetHint
  \/ PlayerTurn /\ ChecksLeft /\ CheckBoard
  \/ PlayerTurn /\ AutoNotes
  \/ PlayerTurn /\ GetGameStats

Spec == Init /\ [][Next]_vars

\* The generator and the carver alone: new_game with every difficulty, every
\* seed and every shuffle of the families.
NextGen ==
  \E d \in Difficulties, seed \in Seeds, shuffle \in PosShuffles :
    NewGame(d, seed, shuffle)

SpecGen == Init /\ [][NextGen]_vars

\* One game in which the hint button is pressed again and again, the puzzle
\* any of those with one shuffle for the three diagonal boxes.
NextHint ==
  \/ /\ ~game_started
     /\ \E d \in Difficulties, k \in BoxShuffles, shuffle \in PosShuffles :
          NewGame(d, <<k, k, k>>, shuffle)
  \/ game_started /\ UIGetHint

SpecHint == Init /\ [][NextHint]_vars /\ WF_vars(NextHint)

\* The first and the last empty cell of the play grid.
EndCells ==
  LET open == OpenCells(board)
  IN  {p \in open : (\A q \in open : p <= q) \/ (\A q \in open : q <= p)}

\* One game in which the player copies the solution into the empty cells, at
\* each step into the first or into the last one that is left.
NextFill ==
  \/ /\ ~game_started
     /\ \E d \in Difficulties, k \in PlayDraws : NewGame(d, <<k, k, k>>, k)
  \/ /\ game_started
     /\ \E p \in EndCells :
          PlaceNumber(RowOf(p), ColOf(p), solution[RowOf(p)][ColOf(p)])

SpecFill == Init /\ [][NextFill]_vars

\* The rectangles <<r1, r2, c1, c2>> of empty cells of the puzzle in which the
\* solution has one digit at (r1, c1) and (r2, c2) and another at (r1, c2)
\* and (r2, c1), the four cells lying in two boxes: with the two digits
\* exchanged the grid is another solution of the puzzle.
SwapRects ==
  {x \in Idx \X Idx \X Idx \X Idx :
     /\ x[1] < x[2] /\ x[3] < x[4]
     /\ (x[1] \div 3 = x[2] \div 3) \/ (x[3] \div 3 = x[4] \div 3)
     /\ solution[x[1]][x[3]] = solution[x[2]][x[4]]
     /\ solution[x[1]][x[4]] = solution[x[2]][x[3]]
     /\ original_board[x[1]][x[3]] = 0 /\ original_board[x[1]][x[4]] = 0
     /\ original_board[x[2]][x[3]] = 0 /\ original_board[x[2]][x[4]] = 0}

\* The digits the player of the other solution puts into the empty cell p:
\* the solution's, and in a cell of the first such rectangle also the other
\* digit of the rectangle.
PlayerDigits(p) ==
  LET rects == SwapRects
      row == RowOf(p)
      col == ColOf(p)
  IN  {solution[row][col]}
      \cup (IF rects = {}
              THEN {}
              ELSE LET x == CHOOSE y \in rects : TRUE
                   IN  IF row \in {x[1], x[2]} /\ col \in {x[3], x[4]}
                         THEN {solution[row][IF col = x[3] THEN x[4] ELSE x[3]]}
                         ELSE {})

\* One game in which the player fills the empty cells in row-major order with
\* the digits of the solution or of another solution of the puzzle, and on
\* the full grid calls check_board and get_hint.
NextAlt ==
  \/ /\ ~game_started
     /\ \E d \in Difficulties, k \in PlayDraws, shuffle \in PosShuffles :
          NewGame(d, <<k, k, k>>, shuffle)
  \/ /\ game_started /\ OpenCells(board) # {}
     /\ \E p \in {Min(OpenCells(board))} :
          \E num \in PlayerDigits(p) : PlaceNumber(RowOf(p), ColOf(p), num)
  \/ game_started /\ OpenCells(board) = {} /\ ChecksLeft /\ CheckBoard
  \/ game_started /\ OpenCells(board) = {} /\ hints_used < MaxAltHints /\ GetHint

SpecAlt == Init /\ [][NextAlt]_vars

(* ------------------------------ properties ----------------------------- *)

\* The board b has no empty cell and equals the solution.
Solved(b) ==
  \A r \in Idx : \A c \in Idx : b[r][c] # 0 /\ b[r][c] = solution[r][c]

\* (row, col) is a cell of the grid.
OnBoard(row, col) == row \in Idx /\ col \in Idx

\* The fields of the object.
Fields == <<board, original_board, solution, difficulty, game_started,
            game_completed, hints_used, mistakes_made, notes>>

\* C1: in every reachable state the completed flag is set if and only if the
\* play grid has no empty cell and equals the solution grid cell for cell.
C1_CompletedIffSolved == game_completed <=> Solved(board)

\* A game was completed by a call of place_number.
C1_Witness ==
  call[1] = "place_number" /\ ret = TRUE /\ game_completed /\ Solved(board)

\* C2 as the specification states it: when get_hint returns a hint (r, c, v),
\* get_hint itself has put v, the solution value, into the play grid at
\* (r, c), has emptied the notes of the cell and has set the completed flag
\* if the grid is now solved.
C2_GetHintPlacesValue ==
  (call = <<"get_hint">> /\ ret # None) =>
     /\ ret[3] = solution[ret[1]][ret[2]]
     /\ board[ret[1]][ret[2]] = ret[3]
     /\ notes[ret[1]][ret[2]] = {}
     /\ game_completed <=> Solved(board)

\* A step of get_hint that returns a hint: the session is started and not
\* completed, the cell of the hint is empty or wrong, the value is the
\* solution's, one more hint is counted and nothing else changes.
C2_GetHintStep ==
  (call' = <<"get_hint">> /\ ret' # None) =>
     /\ game_started /\ ~game_completed
     /\ OnBoard(ret'[1], ret'[2])
     /\ ret'[3] = solution[ret'[1]][ret'[2]]
     /\ board[ret'[1]][ret'[2]] # ret'[3]
     /\ hints_used' = hints_used + 1
     /\ UNCHANGED <<board, original_board, solution, difficulty, game_started,
                    game_completed, mistakes_made, notes>>

\* A step of the hint handler that got a hint: the caller has placed the
\* value with place_number, so that the cell holds the solution value, its
\* notes are empty and the completed flag is set exactly if the grid is solved.
C2_HandlerStep ==
  (call' = <<"_get_hint">> /\ ret' # None) =>
     /\ ret'[3] = solution[ret'[1]][ret'[2]]
     /\ hints_used' = hints_used + 1
     /\ board' = [board EXCEPT ![ret'[1]][ret'[2]] = ret'[3]]
     /\ notes' = [notes EXCEPT ![ret'[1]][ret'[2]] = {}]
     /\ game_completed' = Solved(board')
     /\ UNCHANGED <<original_board, solution, difficulty, game_started,
                    mistakes_made>>

\* C2, amended: get_hint counts the hint and returns (r, c, solution value)
\* of a cell that is empty or wrong, and changes neither the play grid, nor
\* the notes, nor the completed flag; it is the caller, the hint handler of
\* the UI, that places the value with place_number, and after that the cell
\* holds the solution value, its notes are empty and the game is completed if
\* that was the last discrepancy.
C2_GetHintReturnsCallerPlaces == [][C2_GetHintStep /\ C2_HandlerStep]_vars

\* get_hint has returned a hint and the cell of the hint does not hold it.
C2_Witness ==
  /\ call = <<"get_hint">> /\ ret # None
  /\ board[ret[1]][ret[2]] # ret[3]
  /\ hints_used > 0

\* C3: place_number on a given cell returns false for every digit and changes
\* nothing, and in every reachable state every given cell of the play grid
\* holds its original value.
C3_GivensImmutable ==
  /\ \A r \in Idx : \A c \in Idx :
       original_board[r][c] # 0 => board[r][c] = original_board[r][c]
  /\ \A r \in Idx : \A c \in Idx :
       original_board[r][c] # 0 =>
         \A x \in 0 .. 9 :
           place_number(Self, r, c, x) = [self |-> Self, ret |-> FALSE]
  /\ (call[1] = "place_number" /\ OnBoard(call[2], call[3])
        /\ original_board[call[2]][call[3]] # 0) => ret = FALSE

\* place_number of a digit on a given cell of a game in progress returned false.
C3_Witness ==
  /\ call[1] = "place_number" /\ OnBoard(call[2], call[3])
  /\ original_board[call[2]][call[3]] # 0
  /\ call[4] \in Digits /\ call[4] # board[call[2]][call[3]]
  /\ game_started /\ ~game_completed
  /\ ret = FALSE

\* C4: in every reachable state the notes of a cell are empty whenever the
\* play value of the cell is not 0.
C4_NotesEmptyOnFilled ==
  \A r \in Idx : \A c \in Idx : board[r][c] # 0 => notes[r][c] = {}

\* place_number has put a digit into a cell while another cell carries notes.
C4_Witness ==
  /\ call[1] = "place_number" /\ ret = TRUE /\ call[4] # 0
  /\ board[call[2]][call[3]] = call[4]
  /\ notes[call[2]][call[3]] = {}
  /\ \E r \in Idx : \E c \in Idx : notes[r][c] # {}

\* Every row, every column and every 3x3 box of g holds each digit once.
ValidGrid(g) ==
  /\ \A r \in Idx : {g[r][c] : c \in Idx} = Digits
  /\ \A c \in Idx : {g[r][c] : r \in Idx} = Digits
  /\ \A br \in {0, 3, 6} : \A bc \in {0, 3, 6} :
       {g[r][c] : r \in br .. (br + 2), c \in bc .. (bc + 2)} = Digits

\* C5: after every new_game, for every seeding of the three diagonal boxes,
\* the solution grid is fully populated and every row, column and 3x3 box of
\* it contains each digit 1..9 exactly once.
C5_SolutionValid ==
  game_started =>
    /\ \A r \in Idx : \A c \in Idx : solution[r][c] \in Digits
    /\ ValidGrid(solution)

\* new_game has returned with a solution whose cells outside the diagonal
\* boxes, the ones _solve_board fills, hold digits.
C5_Witness ==
  /\ call[1] = "new_game" /\ game_started
  /\ \A r \in 0 .. 2 : \A c \in 3 .. 8 : solution[r][c] \in Digits
  /\ ValidGrid(solution)

\* The cells in which the original grid differs from the solution.
Carved == {p \in Cells :
             original_board[RowOf(p)][ColOf(p)] # solution[RowOf(p)][ColOf(p)]}

\* C6: immediately after new_game(D) the original grid equals the solution
\* except for exactly 40 (EASY), 50 (MEDIUM) or 60 (HARD) cells, which are 0,
\* and the play grid equals the original grid.
C6_CarveCount ==
  call[1] = "new_game" =>
    /\ \A p \in Carved : original_board[RowOf(p)][ColOf(p)] = 0
    /\ Cardinality(Carved) =
         (IF call[2] = EASY THEN 40 ELSE IF call[2] = MEDIUM THEN 50 ELSE 60)
    /\ board = original_board

\* new_game(HARD) has returned with 60 empty cells.
C6_Witness ==
  /\ call = <<"new_game", HARD>>
  /\ Cardinality(OpenCells(original_board)) = 60
  /\ Cardinality(OpenCells(board)) = 60

\* The cells of b that are empty or differ from the solution.
Discrepancies(b) ==
  {p \in Cells : b[RowOf(p)][ColOf(p)] = 0
                   \/ b[RowOf(p)][ColOf(p)] # solution[RowOf(p)][ColOf(p)]}

\* A hint that was applied leaves fewer cells that differ from the solution.
C7_HintStep ==
  (call' = <<"_get_hint">> /\ ret' # None) =>
     Cardinality(Discrepancies(board')) < Cardinality(Discrepancies(board))

\* In a completed game get_hint returns nothing and changes nothing.
C7_AfterCompletion ==
  (game_completed /\ call' = <<"_get_hint">>) =>
     ret' = None /\ UNCHANGED Fields

\* C7: from a fresh puzzle, calling get_hint and applying the hint with
\* place_number again and again, the game is eventually completed; every
\* applied hint strictly reduces the number of cells that differ from the
\* solution, and every get_hint after completion returns nothing.
C7_HintLoopCompletes ==
  /\ game_started ~> game_completed
  /\ [][C7_HintStep /\ C7_AfterCompletion]_vars

\* The handler was called in a completed game and got no hint; the game had
\* taken as many hints as the puzzle had empty cells.
C7_Witness ==
  /\ game_completed /\ call = <<"_get_hint">> /\ ret = None
  /\ hints_used = Cardinality(OpenCells(original_board))
  /\ hints_used >= 40

\* C8: from a fresh puzzle, placing the solution value into the empty cells
\* with place_number, in any order, every placement succeeds, and the game is
\* completed exactly when the last empty cell has been filled, not before.
C8_FillCompletesAtLast ==
  /\ call[1] = "place_number" =>
       /\ ret = TRUE
       /\ board[call[2]][call[3]] = call[4]
       /\ call[4] = solution[call[2]][call[3]]
  /\ game_completed <=> (OpenCells(board) = {})

\* The last of the 60 empty cells of a HARD puzzle was filled and the game is
\* completed.
C8_Witness ==
  /\ call[1] = "place_number" /\ ret = TRUE
  /\ difficulty = HARD /\ Cardinality(OpenCells(original_board)) = 60
  /\ OpenCells(board) = {} /\ game_completed

\* The call of the step violates a precondition of its operation.
C9_Rejected ==
  \/ /\ call'[1] = "place_number"
     /\ \/ ~game_started
        \/ game_completed
        \/ ~OnBoard(call'[2], call'[3])
        \/ call'[4] \notin 0 .. 9
        \/ original_board[call'[2]][call'[3]] # 0
  \/ /\ call'[1] = "toggle_note"
     /\ \/ ~game_started
        \/ game_completed
        \/ ~OnBoard(call'[2], call'[3])
        \/ call'[4] \notin 1 .. 9
        \/ original_board[call'[2]][call'[3]] # 0
        \/ board[call'[2]][call'[3]] # 0
  \/ call'[1] = "auto_notes" /\ (~game_started \/ game_completed)
  \/ call'[1] = "get_hint" /\ (~game_started \/ game_completed)
  \/ call'[1] = "reset_game" /\ ~game_started

\* C9: a mutating operation called with a violated precondition returns
\* false (get_hint: nothing) and leaves the play grid, the original grid, the
\* solution, the notes, the counters and the flags unchanged.
C9_RejectedIsNoOp ==
  [][C9_Rejected =>
       /\ ret' = (IF call'[1] = "get_hint" THEN None ELSE FALSE)
       /\ UNCHANGED Fields]_vars

\* place_number of the right digit on an empty cell was rejected because the
\* game is completed.
C9_Witness ==
  /\ game_completed
  /\ call[1] = "place_number" /\ OnBoard(call[2], call[3])
  /\ original_board[call[2]][call[3]] = 0
  /\ call[4] \in Digits
  /\ ret = FALSE

\* C10 as the specification states it: toggle_note fails if the cell is a
\* given, or holds a non-zero play value, or the digit is not in 1..9, and
\* succeeds in every other case.
C10_ToggleFailsOnlyOnCell ==
  (call[1] = "toggle_note" /\ OnBoard(call[2], call[3])) =>
     (ret = FALSE <=>
        \/ original_board[call[2]][call[3]] # 0
        \/ board[call[2]][call[3]] # 0
        \/ call[4] \notin 1 .. 9)

\* A step of toggle_note.
C10_Step ==
  call'[1] = "toggle_note" =>
    LET row == call'[2]
        col == call'[3]
        num == call'[4]
    IN  IF \/ ~game_started
           \/ game_completed
           \/ ~OnBoard(row, col)
           \/ original_board[row][col] # 0
           \/ board[row][col] # 0
           \/ num \notin 1 .. 9
          THEN ret' = FALSE /\ UNCHANGED Fields
          ELSE /\ ret' = TRUE
               /\ notes' = [notes EXCEPT ![row][col] =
                              IF num \in @ THEN @ \ {num} ELSE @ \cup {num}]
               /\ UNCHANGED <<board, original_board, solution, difficulty,
                              game_started, game_completed, hints_used,
                              mistakes_made>>

\* C10, amended: toggle_note fails (returns false, changes nothing) if the
\* session is not started or is completed, or the coordinates are off the
\* grid, or the cell is a given, or holds a non-zero play value, or the digit
\* is not in 1..9; in every other case it returns true and flips the
\* membership of the digit in the notes of the cell, leaving every other note
\* set and the play grid unchanged.
C10_ToggleNote == [][C10_Step]_vars

\* toggle_note has removed a note from a cell.
C10_Witness ==
  /\ call[1] = "toggle_note" /\ ret = TRUE
  /\ game_started /\ ~game_completed
  /\ call[4] \notin notes[call[2]][call[3]]

\* C11: on a started session, whatever was done before, reset_game returns
\* true, makes the play grid identical to the original grid, empties every
\* note set, sets hints_used and mistakes_made to 0, keeps the solution and
\* the original grid, and leaves the session started and not completed.
C11_ResetRestores ==
  [][(call' = <<"reset_game">> /\ game_started) =>
       /\ ret' = TRUE
       /\ board' = original_board
       /\ notes' = EmptyNotes
       /\ hints_used' = 0 /\ mistakes_made' = 0
       /\ UNCHANGED <<solution, original_board>>
       /\ game_started' /\ ~game_completed']_vars

\* reset_game has returned true on a game of 50 empty cells: they are all
\* empty again, no cell has notes and the counters are 0.
C11_Witness ==
  /\ call = <<"reset_game">> /\ ret = TRUE
  /\ difficulty = MEDIUM
  /\ board = original_board /\ Cardinality(OpenCells(board)) = 50
  /\ notes = EmptyNotes
  /\ hints_used = 0 /\ mistakes_made = 0
  /\ game_started /\ ~game_completed

\* Cell p of the play grid is filled and right.
RightAt(p) ==
  /\ board[RowOf(p)][ColOf(p)] # 0
  /\ board[RowOf(p)][ColOf(p)] = solution[RowOf(p)][ColOf(p)]

\* A step of get_hint, called by the player or by the hint handler.
C12_Step ==
  (call' = <<"get_hint">> \/ call' = <<"_get_hint">>) =>
    IF game_started /\ ~game_completed
      THEN /\ ret' # None
           /\ OnBoard(ret'[1], ret'[2])
           /\ ~RightAt(9 * ret'[1] + ret'[2])
           /\ \A q \in 0 .. (9 * ret'[1] + ret'[2] - 1) : RightAt(q)
           /\ ret'[3] = solution[ret'[1]][ret'[2]]
           /\ hints_used' = hints_used + 1
      ELSE ret' = None /\ hints_used' = hints_used

\* C12: on a started, not completed session get_hint returns (row, col,
\* solution value) of the first cell in row-major order whose play value is 0
\* or differs from the solution, and increments hints_used by exactly 1; on a
\* session that is not started or is completed it returns nothing and leaves
\* hints_used unchanged.
C12_HintIsFirstDiscrepancy == [][C12_Step]_vars

\* get_hint has returned a cell that holds a wrong digit, while a later cell
\* is empty.
C12_Witness ==
  /\ call = <<"get_hint">> /\ ret # None
  /\ board[ret[1]][ret[2]] # 0
  /\ board[ret[1]][ret[2]] # ret[3]
  /\ \E p \in OpenCells(board) : p > 9 * ret[1] + ret[2]

\* The coordinates of the filled cells of the play grid that differ from the
\* solution.
WrongCells ==
  {<<r, c>> \in Idx \X Idx : board[r][c] # 0 /\ board[r][c] # solution[r][c]}

\* C13: check_board returns exactly the coordinates of the non-empty cells of
\* the play grid whose value differs from the solution, each once and no
\* empty cell; called on a completed session it reports no error and leaves
\* mistakes_made unchanged.
C13_CheckBoardReportsWrongCells ==
  [][call' = <<"check_board">> =>
       /\ {ret'[i] : i \in 1 .. Len(ret')} = WrongCells
       /\ Len(ret') = Cardinality(WrongCells)
       /\ game_completed => (ret' = <<>> /\ mistakes_made' = mistakes_made)]_vars

\* check_board has reported a wrong cell while another cell is empty.
C13_Witness ==
  /\ call = <<"check_board">>
  /\ Len(ret) = 1 /\ WrongCells = {ret[1]}
  /\ OpenCells(board) # {}

\* C14: every call of check_board increases mistakes_made by exactly the
\* number of cells it reports (so k calls on an unchanged board with m wrong
\* cells add k*m), and changes nothing else.
C14_CheckBoardCounts ==
  [][call' = <<"check_board">> =>
       /\ mistakes_made' = mistakes_made + Len(ret')
       /\ Len(ret') = Cardinality(WrongCells)
       /\ UNCHANGED <<board, original_board, solution, difficulty, game_started,
                      game_completed, hints_used, notes>>]_vars

\* check_board has reported one wrong cell and mistakes_made is 2: it is the
\* second call that counts a mistake.
C14_Witness ==
  /\ call = <<"check_board">>
  /\ Len(ret) = 1
  /\ mistakes_made = 2

\* The call of the step is a place_number that meets every precondition:
\* session started and not completed, coordinates on the grid, digit in 0..9,
\* cell not a given.
PlaceAccepted ==
  /\ call'[1] = "place_number"
  /\ game_started /\ ~game_completed
  /\ OnBoard(call'[2], call'[3])
  /\ call'[4] \in 0 .. 9
  /\ original_board[call'[2]][call'[3]] = 0

\* C15: a place_number that meets its preconditions is accepted whether or
\* not the digit is the solution's, writes the digit into the cell, empties
\* the notes of the cell only when the digit is not 0, and changes nothing
\* else but, possibly, game_completed.
C15_PlaceNumberFrame ==
  [][PlaceAccepted =>
       /\ ret' = TRUE
       /\ board' = [board EXCEPT ![call'[2]][call'[3]] = call'[4]]
       /\ notes' = IF call'[4] # 0
                     THEN [notes EXCEPT ![call'[2]][call'[3]] = {}]
                     ELSE notes
       /\ UNCHANGED <<original_board, solution, difficulty, game_started,
                      hints_used, mistakes_made>>]_vars

\* place_number has accepted a digit that is not the solution's.
C15_Witness ==
  /\ call[1] = "place_number" /\ ret = TRUE
  /\ call[4] \in Digits
  /\ call[4] # solution[call[2]][call[3]]
  /\ board[call[2]][call[3]] = call[4]

\* C16: place_number(r, c, 0) on a filled cell that is not a given, in a
\* started and not completed session, returns true, empties the cell, and the
\* session is not completed afterwards.
C16_ClearCell ==
  [][(PlaceAccepted /\ call'[4] = 0 /\ board[call'[2]][call'[3]] # 0) =>
       /\ ret' = TRUE
       /\ board'[call'[2]][call'[3]] = 0
       /\ ~game_completed']_vars

\* place_number(r, c, 0) has returned true and left the cell empty, in a game
\* where every empty cell but this one has been filled.
C16_Witness ==
  /\ call[1] = "place_number" /\ call[4] = 0 /\ ret = TRUE
  /\ OpenCells(board) = {9 * call[2] + call[3]}
  /\ ~game_completed

\* toggle_note(row, col, num) called twice in succession on the object as it
\* is: both calls return true, the first flips the membership of num and
\* leaves the other notes of the cell, the second gives back the object as it
\* was.
ToggleTwice(row, col, num) ==
  LET once == toggle_note(Self, row, col, num)
      twice == toggle_note(once.self, row, col, num)
  IN  /\ once.ret = TRUE /\ twice.ret = TRUE
      /\ (num \in once.self.notes[row][col]) <=> (num \notin notes[row][col])
      /\ once.self.notes[row][col] \ {num} = notes[row][col] \ {num}
      /\ twice.self = Self

\* C17: in a started, not completed session, on every empty cell that is not
\* a given and for every digit d in 1..9, toggle_note called twice in
\* succession restores the membership of d and leaves the note set as it
\* was; one call adds d to a set without it and removes it from a set with it.
C17_ToggleTwiceRestores ==
  (game_started /\ ~game_completed) =>
     \A p \in OpenCells(board) : \A d \in Digits :
        original_board[RowOf(p)][ColOf(p)] = 0 => ToggleTwice(RowOf(p), ColOf(p), d)

\* toggle_note has added a digit to a cell that had other notes.
C17_Witness ==
  /\ call[1] = "toggle_note" /\ ret = TRUE
  /\ game_started /\ ~game_completed
  /\ call[4] \in notes[call[2]][call[3]]
  /\ notes[call[2]][call[3]] # {call[4]}

\* The cells of the row, the column and the 3x3 box of (row, col).
Peers(row, col) ==
  {<<r, c>> \in Idx \X Idx :
     r = row \/ c = col \/ (r \div 3 = row \div 3 /\ c \div 3 = col \div 3)}

\* The digits 1..9 that no cell of the row, the column and the box of
\* (row, col) holds on the play grid.
Candidates(row, col) ==
  {d \in Digits : \A rc \in Peers(row, col) : board[rc[1]][rc[2]] # d}

\* C18: after a successful auto_notes the notes of every empty cell are the
\* digits 1..9 minus those of its row, column and box on the play grid, the
\* notes of every filled cell are empty, whatever the notes were before; the
\* solution plays no part.
C18_AutoNotes ==
  [][(call' = <<"auto_notes">> /\ game_started /\ ~game_completed) =>
       /\ ret' = TRUE
       /\ \A r \in Idx : \A c \in Idx :
            notes'[r][c] = IF board[r][c] = 0 THEN Candidates(r, c) ELSE {}
       /\ UNCHANGED <<board, original_board, solution, difficulty, game_started,
                      game_completed, hints_used, mistakes_made>>]_vars

\* auto_notes has returned true and the notes of an empty cell are not the
\* solution's digit alone.
C18_Witness ==
  /\ call = <<"auto_notes">> /\ ret = TRUE
  /\ \E p \in OpenCells(board) :
       notes[RowOf(p)][ColOf(p)] # {solution[RowOf(p)][ColOf(p)]}

\* C19: the solution grid and the original grid never change within a
\* session: place_number, toggle_note, auto_notes, get_hint, check_board,
\* reset_game and get_game_stats (and the hint handler) leave both as they
\* are; only new_game replaces them.
C19_GridsFixedInSession ==
  [][call'[1] # "new_game" => UNCHANGED <<solution, original_board>>]_vars

\* reset_game has returned true in a game whose grids are those new_game made:
\* a valid solution and 60 of its cells carved.
C19_Witness ==
  /\ call = <<"reset_game">> /\ ret = TRUE
  /\ difficulty = HARD
  /\ ValidGrid(solution)
  /\ Cardinality(Carved) = 60
  /\ \A p \in Carved : original_board[RowOf(p)][ColOf(p)] = 0

\* C20: new_game called in any state returns true and leaves the session
\* started and not completed, with both counters 0, every note set empty and
\* the difficulty that was asked for.
C20_NewGameResets ==
  [][call'[1] = "new_game" =>
       /\ ret' = TRUE
       /\ game_started' /\ ~game_completed'
       /\ hints_used' = 0 /\ mistakes_made' = 0
       /\ notes' = EmptyNotes
       /\ difficulty' = call'[2]]_vars

\* new_game(MEDIUM) has returned: the session is started and not completed,
\* the counters are 0 and no cell has notes.
C20_Witness ==
  /\ call = <<"new_game", MEDIUM>> /\ ret = TRUE
  /\ difficulty = MEDIUM
  /\ game_started /\ ~game_completed
  /\ hints_used = 0 /\ mistakes_made = 0
  /\ notes = EmptyNotes

\* A step of the session state machine: the session becomes started by
\* new_game only and never becomes not started again; it becomes completed
\* only by a place_number that succeeded (the player's, or the one the hint
\* handler makes with its hint) and left the grid full and correct; and while
\* it is completed, a call other than new_game and reset_game changes neither
\* the play grid nor the notes.
C21_Step ==
  /\ (~game_started /\ game_started') => call'[1] = "new_game"
  /\ game_started => game_started'
  /\ (~game_completed /\ game_completed') =>
       /\ game_started
       /\ \/ call'[1] = "place_number" /\ ret' = TRUE
             /\ board'[call'[2]][call'[3]] = call'[4]
          \/ call' = <<"_get_hint">> /\ ret' # None
             /\ board'[ret'[1]][ret'[2]] = ret'[3]
       /\ Solved(board')
  /\ (game_completed /\ call'[1] \notin {"new_game", "reset_game"}) =>
       UNCHANGED <<board, notes>>

\* C21: the session goes from not started to started by new_game only, from
\* started to completed only by a successful place_number that makes the grid
\* full and correct, never back to not started, and while it is completed the
\* play grid and the notes do not change until new_game or reset_game is
\* called.
C21_SessionStateMachine == [][C21_Step]_vars

\* place_number of another digit on a cell the player had filled was called
\* in a completed game: it was refused and the grid is still the solution.
C21_Witness ==
  /\ game_started /\ game_completed
  /\ call[1] = "place_number" /\ OnBoard(call[2], call[3])
  /\ original_board[call[2]][call[3]] = 0
  /\ call[4] \in 0 .. 9 /\ call[4] # solution[call[2]][call[3]]
  /\ ret = FALSE
  /\ Solved(board)

\* C22: for every seeding of the three diagonal boxes the backtracking of
\* _solve_board returns with success and no empty cell is left; the solution
\* grid of a started session is never partially filled, it is the grid a
\* successful completion left, and so new_game never goes on with an
\* incomplete solution.
C22_GeneratorCompletes ==
  /\ \A g \in Completions :
       /\ g.result.ok
       /\ \A r \in Idx : \A c \in Idx : g.result.sol[r][c] \in Digits
  /\ game_started =>
       /\ \A r \in Idx : \A c \in Idx : solution[r][c] # 0
       /\ \E g \in Completions : g.result.ok /\ solution = g.result.sol

\* new_game has returned with the solution that _solve_board made of a grid
\* in which the 54 cells outside the diagonal boxes were empty, the boxes
\* seeded with three different shuffles.
C22_Witness ==
  /\ call[1] = "new_game" /\ ret = TRUE
  /\ \E g \in Completions :
       /\ g.seed = <<2, 1, 0>>
       /\ Cardinality(OpenCells(g.seeded)) = 54
       /\ g.result.ok
       /\ solution = g.result.sol
       /\ OpenCells(solution) = {}

\* self.solution at the moment _solve_board, on the way to the completion
\* g.result.sol it ends with, is at cell p: the seeded boxes and the cells
\* before p hold their final digits, the other cells are empty.
PartialGrid(g, p) ==
  [r \in Idx |-> [c \in Idx |->
     IF g.seeded[r][c] # 0 \/ 9 * r + c < p THEN g.result.sol[r][c] ELSE 0]]

\* num occurs in the row, in the column, in the 3x3 box of (row, col).
InRow(grid, row, num) == \E q \in Cells : RowOf(q) = row /\ grid[RowOf(q)][ColOf(q)] = num
InCol(grid, col, num) == \E q \in Cells : ColOf(q) = col /\ grid[RowOf(q)][ColOf(q)] = num
InBox(grid, row, col, num) ==
  \E q \in Cells :
    /\ RowOf(q) \div 3 = row \div 3
    /\ ColOf(q) \div 3 = col \div 3
    /\ grid[RowOf(q)][ColOf(q)] = num

\* The completion that made the solution of the state.
CompletionOfSolution == {g \in Completions : g.result.sol = solution}

\* C23: _is_valid(row, col, digit) is true if and only if the digit occurs
\* nowhere in the row, the column and the containing 3x3 box of the grid
\* under construction.  Checked on the calls _solve_board makes on its way to
\* the solution: at every cell it fills, with every digit up to the one it
\* keeps.
C23_IsValidIffAbsent ==
  call[1] = "new_game" =>
    \A g \in CompletionOfSolution :
      \A p \in OpenCells(g.seeded) :
        \A num \in 1 .. solution[RowOf(p)][ColOf(p)] :
          LET grid == PartialGrid(g, p)
          IN  _is_valid(grid, RowOf(p), ColOf(p), num) <=>
                ~(\/ InRow(grid, RowOf(p), num)
                  \/ InCol(grid, ColOf(p), num)
                  \/ InBox(grid, RowOf(p), ColOf(p), num))

\* On the way to the solution of the state _is_valid has refused a digit that
\* was in the box only, has refused a digit that was in the column only, and
\* has accepted the digit that was kept.
C23_Witness ==
  /\ call[1] = "new_game"
  /\ \E g \in CompletionOfSolution :
       /\ \E p \in OpenCells(g.seeded) :
            \E num \in 1 .. solution[RowOf(p)][ColOf(p)] :
              LET grid == PartialGrid(g, p)
              IN  /\ ~_is_valid(grid, RowOf(p), ColOf(p), num)
                  /\ InBox(grid, RowOf(p), ColOf(p), num)
                  /\ ~InRow(grid, RowOf(p), num)
                  /\ ~InCol(grid, ColOf(p), num)
       /\ \E p \in OpenCells(g.seeded) :
            \E num \in 1 .. solution[RowOf(p)][ColOf(p)] :
              LET grid == PartialGrid(g, p)
              IN  /\ ~_is_valid(grid, RowOf(p), ColOf(p), num)
                  /\ InCol(grid, ColOf(p), num)
                  /\ ~InRow(grid, RowOf(p), num)
                  /\ ~InBox(grid, RowOf(p), ColOf(p), num)
       /\ \A p \in OpenCells(g.seeded) :
            _is_valid(PartialGrid(g, p), RowOf(p), ColOf(p), solution[RowOf(p)][ColOf(p)])

\* The cells the player has to fill, and those of them that are filled.
ToFill == {p \in Cells : original_board[RowOf(p)][ColOf(p)] = 0}
PlayerFilled == {p \in ToFill : board[RowOf(p)][ColOf(p)] # 0}

\* What get_game_stats returns in the state: the percentage is the number of
\* filled cells among the cells to fill over the number of cells to fill,
\* between 0% and 100% and 100% in a completed game, and the other entries
\* are the fields of the session.
C24_Stats ==
  LET stats == get_game_stats(Self).ret
      pct == stats.completion_percentage
  IN  /\ pct = <<100 * Cardinality(PlayerFilled), Cardinality(ToFill)>>
      /\ pct[2] > 0
      /\ 0 <= pct[1] /\ pct[1] <= 100 * pct[2]
      /\ game_completed => pct[1] = 100 * pct[2]
      /\ stats.difficulty = DifficultyName(difficulty)
      /\ stats.hints_used = hints_used
      /\ stats.mistakes_made = mistakes_made
      /\ stats.game_completed = game_completed

\* A call of get_game_stats returns that and changes nothing.
C24_Step ==
  call' = <<"get_game_stats">> =>
    /\ ret' = get_game_stats(Self).ret
    /\ UNCHANGED Fields

\* C24: get_game_stats reports the share of the player-fillable cells that
\* are filled, a count between 0 and the number of non-given cells, 100% in
\* every completed session, together with the session's hints_used,
\* mistakes_made and completed flag, and the call modifies no state.
C24_GameStats == []C24_Stats /\ [][C24_Step]_vars

\* get_game_stats was called in a completed game that took hints and a
\* check with a mistake, and reported 100%.
C24_Witness ==
  /\ call = <<"get_game_stats">>
  /\ game_completed
  /\ ret.completion_percentage[1] = 100 * ret.completion_percentage[2]
  /\ ret.completion_percentage[2] >= 40
  /\ ret.hints_used >= 38 /\ ret.mistakes_made >= 1
  /\ ret.game_completed

\* get_game_stats was called in a game in progress and reported a share
\* strictly between 0% and 100%.
C24_WitnessPartial ==
  /\ call = <<"get_game_stats">>
  /\ ~game_completed
  /\ 0 < ret.completion_percentage[1]
  /\ ret.completion_percentage[1] < 100 * ret.completion_percentage[2]

\* One run of the hint handler on a started, not completed session: get_hint
\* gives a hint, place_number of the hint succeeds, and after the run the
\* hinted cell holds the solution value, its notes are empty, one more hint
\* is counted, the game is completed exactly if the hinted cell was the last
\* cell that differed from the solution, and nothing else has changed.
C25_Step ==
  (call' = <<"_get_hint">> /\ game_started /\ ~game_completed) =>
    LET hint == get_hint(Self)
        row == hint.ret[1]
        col == hint.ret[2]
        value == hint.ret[3]
    IN  /\ hint.ret # None
        /\ ret' = hint.ret
        /\ place_number(hint.self, row, col, value).ret = TRUE
        /\ value = solution[row][col]
        /\ board' = [board EXCEPT ![row][col] = solution[row][col]]
        /\ notes' = [notes EXCEPT ![row][col] = {}]
        /\ hints_used' = hints_used + 1
        /\ game_completed' <=> (Discrepancies(board) = {9 * row + col})
        /\ UNCHANGED <<original_board, solution, difficulty, game_started,
                       mistakes_made>>

\* C25: the hint handler of the UI, get_hint followed by place_number of the
\* returned triple, does what the hint operation of the specification does:
\* after one run on a started, not completed session the hinted cell holds
\* the solution value, its notes are empty, hints_used has grown by exactly
\* 1, the place_number call has not failed, and game_completed is set exactly
\* when the hinted cell was the last discrepancy.
C25_HandlerIsSpecHint == [][C25_Step]_vars

\* The handler has completed a game in which the player had filled cells and
\* had checked a wrong digit: its hint is on the board and the player's cells
\* are not counted as hints.
C25_Witness ==
  /\ call = <<"_get_hint">> /\ ret # None
  /\ board[ret[1]][ret[2]] = ret[3]
  /\ game_completed /\ Solved(board)
  /\ hints_used < Cardinality(OpenCells(original_board))
  /\ mistakes_made > 0

\* C26: in every reachable state in which the session is started and not
\* completed, get_hint returns a triple (its last line, which returns nothing,
\* is not reached), the cell of the triple is not a given and its value is
\* the solution digit, so that place_number of the triple succeeds, before
\* and after the hint is counted.
C26_HintAlwaysPlaceable ==
  (game_started /\ ~game_completed) =>
    LET hint == get_hint(Self)
    IN  /\ hint.ret # None
        /\ OnBoard(hint.ret[1], hint.ret[2])
        /\ original_board[hint.ret[1]][hint.ret[2]] = 0
        /\ hint.ret[3] \in Digits
        /\ place_number(Self, hint.ret[1], hint.ret[2], hint.ret[3]).ret = TRUE
        /\ place_number(hint.self, hint.ret[1], hint.ret[2], hint.ret[3]).ret = TRUE

\* The player has filled the last empty cell with a wrong digit: the grid is
\* full, the game is not completed, and get_hint gives a triple for a filled
\* cell that is not a given.
C26_Witness ==
  /\ game_started /\ ~game_completed
  /\ call[1] = "place_number" /\ ret = TRUE
  /\ OpenCells(board) = {}
  /\ get_hint(Self).ret # None
  /\ board[get_hint(Self).ret[1]][get_hint(Self).ret[2]] # 0
  /\ original_board[get_hint(Self).ret[1]][get_hint(Self).ret[2]] = 0

\* place_number of every number 0..9 on every cell of the object self that
\* is not a given is accepted.
AcceptsPlacements(self) ==
  \A p \in Cells :
    self.original_board[RowOf(p)][ColOf(p)] = 0 =>
      \A num \in 0 .. 9 : place_number(self, RowOf(p), ColOf(p), num).ret = TRUE

\* A call of reset_game in a completed session.
C27_Step ==
  (game_completed /\ call' = <<"reset_game">>) =>
    /\ ret' = TRUE
    /\ game_started' /\ ~game_completed'
    /\ board' = original_board /\ original_board' = original_board
    /\ OpenCells(board') # {}
    /\ AcceptsPlacements(Self')

\* C27: reset_game called while the session is completed is accepted: it
\* sets game_completed back to false and restores the play grid to the
\* original grid, so that the session is started and not completed again and
\* place_number on the cells that are not givens is accepted again.
C27_ResetReopensCompleted == [][C27_Step]_vars

\* A completed session, in which place_number is refused, on which
\* reset_game returns true and leaves a session that is not completed and
\* accepts the placement that was refused.
C27_Witness ==
  /\ game_started /\ game_completed /\ Solved(board)
  /\ call[1] = "place_number" /\ ret = FALSE
  /\ OnBoard(call[2], call[3]) /\ original_board[call[2]][call[3]] = 0
  /\ call[4] \in Digits
  /\ reset_game(Self).ret = TRUE
  /\ ~reset_game(Self).self.game_completed
  /\ reset_game(Self).self.board = original_board
  /\ place_number(reset_game(Self).self, call[2], call[3], call[4]).ret = TRUE

\* The play grid is full, obeys the rules and is not the stored solution.
OtherSolution ==
  /\ game_started
  /\ OpenCells(board) = {}
  /\ ValidGrid(board)
  /\ board # solution

\* C28: completion is decided by equality with the stored solution alone: in
\* any state in which the play grid is full and every row, column and box of
\* it holds each digit once, but the grid is not the stored solution, the
\* game is not completed, check_board reports the cells that differ from the
\* solution, and get_hint returns one of them with the digit of the solution.
C28_OnlyStoredSolutionCompletes ==
  OtherSolution =>
    /\ ~game_completed
    /\ ~_check_completion(Self)
    /\ check_board(Self).ret = CellList(Discrepancies(board))
    /\ Discrepancies(board) # {}
    /\ LET hint == get_hint(Self).ret
       IN  /\ hint # None
           /\ 9 * hint[1] + hint[2] \in Discrepancies(board)
           /\ hint[3] = solution[hint[1]][hint[2]]
    /\ call = <<"check_board">> => ret = CellList(Discrepancies(board))
    /\ call = <<"get_hint">> =>
         ret # None /\ 9 * ret[1] + ret[2] \in Discrepancies(board)

\* The player has filled the puzzle with another solution of it, which
\* agrees with every given and differs from the stored solution in four
\* cells; the game is not completed and check_board has reported the four
\* cells.
C28_Witness ==
  /\ OtherSolution
  /\ \A p \in Cells : original_board[RowOf(p)][ColOf(p)] # 0 =>
       board[RowOf(p)][ColOf(p)] = original_board[RowOf(p)][ColOf(p)]
  /\ Cardinality(Discrepancies(board)) = 4
  /\ ~game_completed
  /\ call = <<"check_board">> /\ Len(ret) = 4
  /\ mistakes_made = 4

\* The notes hold, for every empty cell of the play grid, the solution digit
\* of the cell.
SolutionInNotes(n) ==
  \A p \in OpenCells(board) :
    /\ solution[RowOf(p)][ColOf(p)] \in n[RowOf(p)][ColOf(p)]
    /\ n[RowOf(p)][ColOf(p)] # {}

\* C29: in any reachable state in which every filled cell of the play grid
\* holds its solution digit, after auto_notes the notes of every empty cell
\* contain the solution digit of the cell and so are not empty.
C29_AutoNotesKeepSolution ==
  (game_started /\ ~game_completed /\ WrongCells = {}) =>
    /\ auto_notes(Self).ret = TRUE
    /\ SolutionInNotes(auto_notes(Self).self.notes)
    /\ call = <<"auto_notes">> => (ret = TRUE /\ SolutionInNotes(notes))

\* auto_notes has returned true on a grid with two empty cells and no wrong
\* digit, in a game in which hints were taken: both cells have their solution
\* digit among their notes.
C29_Witness ==
  /\ call = <<"auto_notes">> /\ ret = TRUE
  /\ WrongCells = {}
  /\ Cardinality(OpenCells(board)) = 2
  /\ hints_used > 0
  /\ SolutionInNotes(notes)

\* The cells of the three diagonal boxes.
DiagonalCells == {p \in Cells : RowOf(p) \div 3 = ColOf(p) \div 3}

\* The grid with num at its empty cell p has no valid completion: num breaks
\* the rules at p, or the search of _solve_board from that grid fails.
NoCompletionWith(grid, p, num) ==
  \/ InRow(grid, RowOf(p), num)
  \/ InCol(grid, ColOf(p), num)
  \/ InBox(grid, RowOf(p), ColOf(p), num)
  \/ ~_solve_board([grid EXCEPT ![RowOf(p)][ColOf(p)] = num]).ok

\* C30: the backtracking completion leaves the seeded cells of the diagonal
\* boxes as they were, and what it returns is the smallest valid completion
\* of the seed in the lexicographic order of the cells in row-major order:
\* at every cell it filled, no smaller digit can be completed to a valid grid
\* given the cells before it; so the solution is a function of the three
\* seeded boxes.
C30_SmallestCompletion ==
  call[1] = "new_game" =>
    /\ CompletionOfSolution # {}
    /\ \A g \in CompletionOfSolution :
         /\ OpenCells(g.seeded) = Cells \ DiagonalCells
         /\ \A p \in DiagonalCells :
              solution[RowOf(p)][ColOf(p)] = g.seeded[RowOf(p)][ColOf(p)]
         /\ \A p \in OpenCells(g.seeded) :
              \A num \in 1 .. (solution[RowOf(p)][ColOf(p)] - 1) :
                NoCompletionWith(PartialGrid(g, p), p, num)
         /\ \A h \in Completions : h.seeded = g.seeded => h.result.sol = solution
         /\ GeneratedSolution(g.seed) = solution

\* new_game has returned with a solution that the search did not find
\* without backtracking: at one of its cells a smaller digit obeyed the rules
\* when the cell was reached and led to no completion.
C30_Witness ==
  /\ call[1] = "new_game"
  /\ \E g \in CompletionOfSolution :
       /\ \A p \in DiagonalCells :
            solution[RowOf(p)][ColOf(p)] = g.seeded[RowOf(p)][ColOf(p)]
       /\ \E p \in OpenCells(g.seeded) :
            \E num \in 1 .. (solution[RowOf(p)][ColOf(p)] - 1) :
              /\ _is_valid(PartialGrid(g, p), RowOf(p), ColOf(p), num)
              /\ ~_solve_board([PartialGrid(g, p) EXCEPT ![RowOf(p)][ColOf(p)] = num]).ok

====
